---- MODULE Spec2Model ----
(***************************************************************************)
(* Model of py-debugger's Python services:                                 *)
(*   src/src/services/visualBuilder.py  (visual element model, bindings,   *)
(*                                       array ownership, serializer)      *)
(*   src/src/services/pythonTracer.py   (step recorder)                    *)
(*                                                                         *)
(* Python values are modelled as tagged records so that values of          *)
(* different Python types can be compared with each other.                 *)
(***************************************************************************)
EXTENDS Integers, Sequences, FiniteSets, TLC

VARIABLES
    created,              \* elements whose constructor has run
    registry,             \* VisualElem._registry
    parent,               \* elem._parent
    children,             \* panel._children
    array_owner,          \* elem._array_owner (getattr default None)
    cells,                \* array._cells
    length,               \* array._length
    length_manually_set,  \* array._length_manually_set
    cell_bindings,        \* array._cell_bindings
    bindings,             \* elem._bindings
    attrs,                \* concrete attribute values of an element
    vb_id,                \* elem._vb_id, set by a serialization pass
    result,               \* records returned by the last serialization pass
    outcome,              \* how the last operation ended: "ok" or the error raised
    ever_assigned,        \* history: shapes that a successful index-assignment stored
    last,                 \* history: the last operation; for an index-assignment, an attribute
                          \* assignment and an update also its arguments and the locals it read
    nops                  \* number of operations performed so far

\* pythonTracer.py and the interpreter state it acts on
VARIABLES
    sys_stdout,           \* sys.stdout: the current output target
    original_stdout,      \* _original_stdout, bound when the module is loaded
    sys_trace,            \* the hook installed by sys.settrace
    trace_steps,          \* _trace_steps
    stack,                \* the interpreter's frames during a run, outermost first
    heap,                 \* the traced program's list objects, by reference
    running,              \* a run is between its exec() call and its exit
    ret,                  \* how the last run ended and what it returned
    stdout_before,        \* history: sys.stdout immediately before the last run began
    snapshots,            \* history: each step's content at the time it was appended
    author_lines          \* history: line events of the author's own, non-reserved frames

visVars == <<created, registry, parent, children, array_owner, cells, length,
             length_manually_set, cell_bindings, bindings, attrs, vb_id, result,
             outcome, ever_assigned, last>>

recVars == <<sys_stdout, original_stdout, sys_trace, trace_steps, stack, heap,
             running, ret, stdout_before, snapshots, author_lines>>

vars == <<visVars, recVars, nops>>

----------------------------------------------------------------------------
(* Bounds of the model *)

MaxOps == 4        \* operations per behaviour of Spec
MaxIndex == 5      \* largest index used in an index-assignment
MaxRecOps == 5     \* recorder and traced-program events per behaviour of SpecRec
MaxLine == 2       \* line numbers of the traced program
MaxListLen == 2    \* length of a list object of the traced program
MaxDepth == 2      \* frames of the traced program above its module frame

----------------------------------------------------------------------------
(* The element objects the author's program may construct, and their class *)

None == "None"

Panels == {"p1", "p2"}
Rects == {"r1"}
Circles == {"c1"}
Arrays == {"a1", "a2"}
Elems == Panels \cup Rects \cup Circles \cup Arrays

\* type(e).__name__
TypeName(e) ==
    IF e \in Panels THEN "Panel"
    ELSE IF e \in Rects THEN "Rect"
    ELSE IF e \in Circles THEN "Circle"
    ELSE "Array"

\* _get_shape_classes(): (Rect, Circle, Arrow)
ShapeClasses == {"Rect", "Circle", "Arrow"}

IsShape(e) == TypeName(e) \in ShapeClasses

\* the element_type argument the array is constructed with ("" is None)
ElementType(a) == IF a = "a2" THEN "rect" ELSE ""

----------------------------------------------------------------------------
(* Python values *)

NoneV == [t |-> "None", n |-> 0, e |-> "", d |-> <<>>]
IntV(k) == [t |-> "int", n |-> k, e |-> "", d |-> <<>>]
ElemV(x) == [t |-> "elem", n |-> 0, e |-> x, d |-> <<>>]
\* a V(expr) object
ExprV(x) == [t |-> "V", n |-> 0, e |-> x, d |-> <<>>]
\* a dict, as its items in insertion order: <<key, value>> pairs
DictV(items) == [t |-> "dict", n |-> 0, e |-> "", d |-> items]
\* a str
StrV(x) == [t |-> "str", n |-> 0, e |-> x, d |-> <<>>]
\* a tuple or list, as its components
TupleV(items) == [t |-> "tuple", n |-> 0, e |-> "", d |-> items]
\* an attribute the object does not have
Absent == [t |-> "absent", n |-> 0, e |-> "", d |-> <<>>]

Range(s) == {s[i] : i \in 1..Len(s)}

\* list.remove(x) after an `x in list` test: drops the first occurrence
RECURSIVE ListRemove(_, _)
ListRemove(s, x) ==
    IF s = <<>> THEN <<>>
    ELSE IF Head(s) = x THEN Tail(s)
    ELSE <<Head(s)>> \o ListRemove(Tail(s), x)

\* [default] * k
Repeat(v, k) == [i \in 1..k |-> v]

----------------------------------------------------------------------------
(* Initial state: the author's program has run                             *)
(*     p1 = Panel(); a1 = Array("arr"); r1 = Rect()                        *)
(* and goes on from there; the other elements are constructed later.       *)

DefaultLength == 5

\* {} if self.element_type else 0
DefaultCell(a) == IF ElementType(a) # "" THEN DictV(<<>>) ELSE IntV(0)

\* property names the author assigns and binds
Props == {"width", "length"}

\* the color a shape's constructor sets
DefaultColor(e) ==
    IF TypeName(e) = "Circle" THEN <<59, 130, 246>> ELSE <<34, 197, 94>>

\* a tuple of ints
IntTuple(ks) == TupleV([i \in 1..Len(ks) |-> IntV(ks[i])])

\* attributes the constructors set: position and alpha, and width and color
\* where the class has them
DefaultAttrs(e) ==
    IF TypeName(e) = "Panel"
    THEN [position |-> IntTuple(<<0, 0>>), alpha |-> IntV(1), width |-> IntV(5)]
    ELSE IF TypeName(e) = "Array"
    THEN [position |-> IntTuple(<<0, 0>>), alpha |-> IntV(1)]
    ELSE [position |-> IntTuple(<<0, 0>>), alpha |-> IntV(1), width |-> IntV(1),
          color |-> IntTuple(DefaultColor(e))]

InitElems == <<"p1", "a1", "r1">>

\* a step whose variable mapping defines neither x nor arr
NoParams == [xdef |-> FALSE, x |-> 0, arrdef |-> FALSE, arr |-> <<>>]

\* the record kept in `last`: owner, elem_parent and my_parent are the locals
\* Array.__setitem__ reads before it changes anything
LastOp(op, tgt, idx, val, params) ==
    [op |-> op, tgt |-> tgt, idx |-> idx, val |-> val, params |-> params,
     owner |-> IF val.t = "elem" /\ op = "setitem" THEN array_owner[val.e] ELSE None,
     elem_parent |-> IF val.t = "elem" /\ op = "setitem" THEN parent[val.e] ELSE None,
     my_parent |-> IF op = "setitem" THEN parent[tgt] ELSE None]

Init ==
    /\ created = Range(InitElems)
    /\ registry = InitElems
    /\ parent = [e \in Elems |-> None]
    /\ children = [p \in Panels |-> <<>>]
    /\ array_owner = [e \in Elems |-> None]
    /\ cells = [a \in Arrays |->
          IF a \in Range(InitElems) THEN Repeat(DefaultCell(a), DefaultLength) ELSE <<>>]
    /\ length = [a \in Arrays |-> IF a \in Range(InitElems) THEN DefaultLength ELSE 0]
    /\ length_manually_set = [a \in Arrays |-> FALSE]
    /\ cell_bindings = [a \in Arrays |-> <<>>]
    /\ bindings = [e \in Elems |-> <<>>]
    /\ attrs = [e \in Elems |-> IF e \in Range(InitElems) THEN DefaultAttrs(e) ELSE <<>>]
    /\ vb_id = [e \in Elems |-> <<"", 0>>]
    /\ result = <<>>
    /\ outcome = "ok"
    /\ ever_assigned = {}
    /\ last = LastOp("init", None, 0, NoneV, NoParams)
    /\ nops = 0
    /\ sys_stdout = "console"
    /\ original_stdout = "console"
    /\ sys_trace = None
    /\ trace_steps = <<>>
    /\ stack = <<>>
    /\ heap = <<>>
    /\ running = FALSE
    /\ ret = [kind |-> "none", exc |-> "", steps |-> <<>>, compiled |-> FALSE]
    /\ stdout_before = "console"
    /\ snapshots = <<>>
    /\ author_lines = 0

----------------------------------------------------------------------------
(* Expression resolver: V.resolve *)

\* the variable mapping of a recorded step, as the names the expressions use:
\* x is an int or undefined, arr is a list of ints or undefined
StepParams ==
    {NoParams,
     [xdef |-> TRUE, x |-> 2, arrdef |-> FALSE, arr |-> <<>>],
     [xdef |-> FALSE, x |-> 0, arrdef |-> TRUE, arr |-> <<1, 2, 3>>],
     [xdef |-> TRUE, x |-> 2, arrdef |-> TRUE, arr |-> <<1, 2, 3, 4>>]}

\* the expression strings the author binds
Exprs == {"x", "len(arr)"}

\* eval(self.expr, _V_GLOBALS, params); any exception gives None
resolve(expr, params) ==
    IF expr = "x" THEN (IF params.xdef THEN IntV(params.x) ELSE NoneV)
    ELSE IF expr = "len(arr)" THEN (IF params.arrdef THEN IntV(Len(params.arr)) ELSE NoneV)
    ELSE NoneV

----------------------------------------------------------------------------
(* VisualElem: construction, attribute assignment *)

\* `length` of an Array is a property over _length
IsLengthProperty(e, name) == e \in Arrays /\ name = "length"

\* getattr(e, name)
GetAttr(e, name) ==
    IF IsLengthProperty(e, name) THEN IntV(length[e])
    ELSE IF name \in DOMAIN attrs[e] THEN attrs[e][name]
    ELSE Absent

\* del d[name]
DictDel(d, name) == [k \in (DOMAIN d) \ {name} |-> d[k]]

\* d[name] = v
DictSet(d, name, v) == [k \in (DOMAIN d) \cup {name} |-> IF k = name THEN v ELSE d[k]]

\* VisualElem.__init__ and the subclass constructors
Construct(e) ==
    /\ nops < MaxOps
    /\ e \notin created
    /\ created' = created \cup {e}
    /\ registry' = Append(registry, e)
    /\ parent' = [parent EXCEPT ![e] = None]
    /\ bindings' = [bindings EXCEPT ![e] = <<>>]
    /\ attrs' = [attrs EXCEPT ![e] = DefaultAttrs(e)]
    /\ IF e \in Panels
       THEN children' = [children EXCEPT ![e] = <<>>]
       ELSE UNCHANGED children
    /\ IF e \in Arrays
       THEN /\ length' = [length EXCEPT ![e] = DefaultLength]
            /\ length_manually_set' = [length_manually_set EXCEPT ![e] = FALSE]
            /\ cells' = [cells EXCEPT ![e] =
                  Repeat(DefaultCell(e), DefaultLength)]
            /\ cell_bindings' = [cell_bindings EXCEPT ![e] = <<>>]
       ELSE UNCHANGED <<length, length_manually_set, cells, cell_bindings>>
    /\ outcome' = "ok"
    /\ last' = LastOp("construct", None, 0, NoneV, NoParams)
    /\ UNCHANGED recVars
    /\ nops' = nops + 1
    /\ UNCHANGED <<array_owner, vb_id, result, ever_assigned>>

\* a literal assignment that leaves the binding in place
SetAttrBindings_LiteralKeeps(e, name, value) ==
    IF value.t = "V" THEN DictSet(bindings[e], name, value.e) ELSE bindings[e]

\* the new _bindings of e after `e.name = value`
SetAttrBindings(e, name, value) ==
    IF value.t = "V" THEN DictSet(bindings[e], name, value.e)
    ELSE IF name \in DOMAIN bindings[e] THEN DictDel(bindings[e], name)
    ELSE bindings[e]

\* VisualElem.__setattr__ by the author, and the Array.length setter
SetAttr(e, name, value) ==
    /\ nops < MaxOps
    /\ e \in created
    /\ bindings' = [bindings EXCEPT ![e] = SetAttrBindings(e, name, value)]
    /\ IF value.t = "V"
       THEN UNCHANGED <<attrs, length, length_manually_set>>
       ELSE IF IsLengthProperty(e, name)
       THEN /\ length' = [length EXCEPT ![e] = value.n]
            /\ length_manually_set' = [length_manually_set EXCEPT ![e] = TRUE]
            /\ UNCHANGED attrs
       ELSE /\ attrs' = [attrs EXCEPT ![e] = DictSet(attrs[e], name, value)]
            /\ UNCHANGED <<length, length_manually_set>>
    /\ outcome' = "ok"
    /\ last' = LastOp("setattr", e, 0, value, NoParams)
    /\ UNCHANGED recVars
    /\ nops' = nops + 1
    /\ UNCHANGED <<created, registry, parent, children, array_owner, cells,
                   cell_bindings, vb_id, result, ever_assigned>>

----------------------------------------------------------------------------
(* Panel *)

\* Panel.add
PanelAdd(p, e) ==
    /\ nops < MaxOps
    /\ p \in Panels /\ p \in created /\ e \in created
    /\ IF e \notin Range(children[p])
       THEN /\ children' = [children EXCEPT ![p] = Append(children[p], e)]
            /\ parent' = [parent EXCEPT ![e] = p]
       ELSE UNCHANGED <<children, parent>>
    /\ outcome' = "ok"
    /\ last' = LastOp("add", None, 0, NoneV, NoParams)
    /\ UNCHANGED recVars
    /\ nops' = nops + 1
    /\ UNCHANGED <<created, registry, array_owner, cells, length, length_manually_set,
                   cell_bindings, bindings, attrs, vb_id, result, ever_assigned>>

\* Panel.remove
PanelRemove(p, e) ==
    /\ nops < MaxOps
    /\ p \in Panels /\ p \in created /\ e \in created
    /\ IF e \in Range(children[p])
       THEN /\ children' = [children EXCEPT ![p] = ListRemove(children[p], e)]
            /\ parent' = [parent EXCEPT ![e] = None]
       ELSE UNCHANGED <<children, parent>>
    /\ outcome' = "ok"
    /\ last' = LastOp("remove", None, 0, NoneV, NoParams)
    /\ UNCHANGED recVars
    /\ nops' = nops + 1
    /\ UNCHANGED <<created, registry, array_owner, cells, length, length_manually_set,
                   cell_bindings, bindings, attrs, vb_id, result, ever_assigned>>

----------------------------------------------------------------------------
(* Array *)

\* the var_name argument the array is constructed with
VarName(a) == IF a = "a1" THEN "arr" ELSE ""

\* self._cells after the extension at the top of __setitem__
Grown(a, index) ==
    IF index >= Len(cells[a])
    THEN cells[a] \o Repeat(DefaultCell(a), index - Len(cells[a]) + 1)
    ELSE cells[a]

\* self._length after the extension at the top of __setitem__
GrownLength(a, index) ==
    IF index >= Len(cells[a]) THEN Len(Grown(a, index)) ELSE length[a]

\* any(isinstance(v, V) for v in value.values())
HasBindings(items) == \E i \in 1..Len(items) : items[i][2].t = "V"

\* the owner check left out
OwnedElsewhere_Unchecked(a, v) == FALSE

\* the check of the element's _array_owner: does it stop the assignment?
OwnedElsewhere(a, v) == array_owner[v] # None /\ array_owner[v] # a

\* the parent check left out
ParentMismatch_Unchecked(a, v) == FALSE

\* the check of the element's _parent against the array's: does it stop the assignment?
ParentMismatch(a, v) == parent[v] # None /\ parent[v] # parent[a]

\* the error an index-assignment of element v raises, "ok" if none
SetItemError(a, v) ==
    IF ~IsShape(v)
    THEN "ValueError: Only shape elements (Rect, Circle, Arrow) can be added to an array"
    ELSE IF OwnedElsewhere(a, v)
    THEN "ValueError: Element is already in another array"
    ELSE IF ParentMismatch(a, v)
    THEN "ValueError: Element belongs to a different panel than the array"
    ELSE "ok"

\* the shape left in the registry
RegistryAfterAssign_Kept(v) == registry

\* VisualElem._registry after the assignment of shape v has passed its checks
RegistryAfterAssign(v) ==
    IF v \in Range(registry) THEN ListRemove(registry, v) ELSE registry

\* Array.__setitem__ with a visual element as the value
SetItemElem(a, index, v) ==
    /\ cell_bindings' = cell_bindings
    /\ length' = [length EXCEPT ![a] = GrownLength(a, index)]
    /\ outcome' = SetItemError(a, v)
    /\ IF SetItemError(a, v) # "ok"
       THEN /\ cells' = [cells EXCEPT ![a] = Grown(a, index)]
            /\ UNCHANGED <<registry, parent, children, array_owner, ever_assigned>>
       ELSE /\ IF parent[v] # None /\ v \in Range(children[parent[v]])
               THEN /\ children' = [children EXCEPT ![parent[v]] = ListRemove(@, v)]
                    /\ parent' = [parent EXCEPT ![v] = None]
               ELSE UNCHANGED <<children, parent>>
            /\ registry' = RegistryAfterAssign(v)
            /\ array_owner' = [array_owner EXCEPT ![v] = a]
            /\ cells' = [cells EXCEPT ![a] = [Grown(a, index) EXCEPT ![index + 1] = ElemV(v)]]
            /\ ever_assigned' = ever_assigned \cup {v}

\* Array.__setitem__ with a dict or a plain value
SetItemPlain(a, index, value) ==
    /\ length' = [length EXCEPT ![a] = GrownLength(a, index)]
    /\ cell_bindings' =
          IF value.t = "dict" /\ HasBindings(value.d)
          THEN [cell_bindings EXCEPT ![a] = DictSet(@, index, value.d)]
          ELSE IF value.t = "dict" /\ index \in DOMAIN cell_bindings[a]
          THEN [cell_bindings EXCEPT ![a] = DictDel(@, index)]
          ELSE cell_bindings
    /\ cells' = [cells EXCEPT ![a] = [Grown(a, index) EXCEPT ![index + 1] = value]]
    /\ outcome' = "ok"
    /\ UNCHANGED <<registry, parent, children, array_owner, ever_assigned>>

\* Array.__setitem__
SetItem(a, index, value) ==
    /\ nops < MaxOps
    /\ a \in Arrays /\ a \in created
    /\ value.t = "elem" => value.e \in created
    /\ IF value.t = "elem"
       THEN SetItemElem(a, index, value.e)
       ELSE SetItemPlain(a, index, value)
    /\ last' = LastOp("setitem", a, index, value, NoParams)
    /\ UNCHANGED recVars
    /\ nops' = nops + 1
    /\ UNCHANGED <<created, length_manually_set, bindings, attrs, vb_id, result>>

\* the update without its `is not None` test
UpdatedAttrs_NoneAssigned(e, params) ==
    LET hit == {k \in DOMAIN bindings[e] : ~IsLengthProperty(e, k)}
    IN  [k \in (DOMAIN attrs[e]) \cup hit |->
            IF k \in hit THEN resolve(bindings[e][k], params) ELSE attrs[e][k]]

\* the concrete attributes of e after VisualElem.update(scope, params)
UpdatedAttrs(e, params) ==
    LET hit == {k \in DOMAIN bindings[e] :
                   /\ ~IsLengthProperty(e, k)
                   /\ resolve(bindings[e][k], params).t # "None"}
    IN  [k \in (DOMAIN attrs[e]) \cup hit |->
            IF k \in hit THEN resolve(bindings[e][k], params) ELSE attrs[e][k]]

\* the auto-length step left out
AutoLength_Kept(a, params) == length[a]

\* self._length after the auto-length step at the top of Array.update
AutoLength(a, params) ==
    IF ~length_manually_set[a] /\ VarName(a) = "arr" /\ params.arrdef
    THEN Len(params.arr)
    ELSE length[a]

\* does the generic pass of Array.update assign the `length` property?
LengthResolved(a, params) ==
    /\ "length" \in DOMAIN bindings[a]
    /\ resolve(bindings[a]["length"], params).t # "None"

\* a structured cell's bindings resolved from scratch
ResolvedItems(items, params) ==
    [i \in 1..Len(items) |->
        <<items[i][1],
          IF items[i][2].t = "V" THEN resolve(items[i][2].e, params) ELSE items[i][2]>>]

\* self._cells after the last loop of Array.update
ResolvedCells(a, params) ==
    [i \in 1..Len(cells[a]) |->
        IF (i - 1) \in DOMAIN cell_bindings[a]
        THEN DictV(ResolvedItems(cell_bindings[a][i - 1], params))
        ELSE cells[a][i]]

\* VisualElem.update / Array.update
Update(e, params) ==
    /\ nops < MaxOps
    /\ e \in created
    /\ IF e \in Arrays
       THEN /\ length' = [length EXCEPT ![e] =
                  IF LengthResolved(e, params)
                  THEN resolve(bindings[e]["length"], params).n
                  ELSE AutoLength(e, params)]
            /\ length_manually_set' = [length_manually_set EXCEPT ![e] =
                  @ \/ LengthResolved(e, params)]
            /\ attrs' = [x \in Elems |->
                  IF x = e \/ ElemV(x) \in Range(cells[e])
                  THEN UpdatedAttrs(x, params)
                  ELSE attrs[x]]
            /\ cells' = [cells EXCEPT ![e] = ResolvedCells(e, params)]
       ELSE /\ attrs' = [attrs EXCEPT ![e] = UpdatedAttrs(e, params)]
            /\ UNCHANGED <<length, length_manually_set, cells>>
    /\ outcome' = "ok"
    /\ last' = LastOp("update", e, 0, NoneV, params)
    /\ UNCHANGED recVars
    /\ nops' = nops + 1
    /\ UNCHANGED <<created, registry, parent, children, array_owner, cell_bindings,
                   bindings, vb_id, result, ever_assigned>>

----------------------------------------------------------------------------
(* Scene serializer *)

NoId == <<"", 0>>

\* position of e in a list without duplicates
IndexOf(s, e) == CHOOSE i \in 1..Len(s) : s[i] = e

\* the _vb_id every element carries after the id loop of a pass
AssignedIds ==
    [e \in Elems |->
        IF e \in Range(registry)
        THEN <<IF e \in Panels THEN "panel" ELSE "elem", IndexOf(registry, e)>>
        ELSE vb_id[e]]

\* the class names in sorted order, for the sort key's second component
TypeNameOrder == <<"Array", "Arrow", "Circle", "Label", "Panel", "Rect", "Var">>

\* the sort key (0 if Panel else 1, type(e).__name__) as one rank
SortRank(e) ==
    IF e \in Panels THEN 0 ELSE IndexOf(TypeNameOrder, TypeName(e))

RECURSIVE ConcatRanks(_, _)
ConcatRanks(s, k) ==
    IF k > Len(TypeNameOrder) THEN <<>>
    ELSE SelectSeq(s, LAMBDA e : SortRank(e) = k) \o ConcatRanks(s, k + 1)

\* sorted(VisualElem._registry, key=...): a stable sort
panels_first == ConcatRanks(registry, 0)

\* d.get(key)
DictGet(items, key) ==
    IF \E i \in 1..Len(items) : items[i][1] = key
    THEN items[CHOOSE i \in 1..Len(items) : items[i][1] = key][2]
    ELSE NoneV

\* int(getattr(e, name, default)) of an int-valued attribute
IntAttr(e, name, default) ==
    IF GetAttr(e, name).t = "int" THEN GetAttr(e, name).n ELSE default

\* isinstance(c, (list, tuple)) and len(c) >= 3
IsColorTriple(c) == c.t = "tuple" /\ Len(c.d) >= 3

\* [int(c[0]), int(c[1]), int(c[2])] raises on a component int() rejects
ColorRaises(c) == IsColorTriple(c) /\ \E i \in 1..3 : c.d[i].t # "int"

\* the color entry of a record: the triple, else the default given (<<>> for
\* no entry)
SerializeColor(c, default) ==
    IF IsColorTriple(c) THEN [i \in 1..3 |-> c.d[i].n] ELSE default

\* [row, col] of a record: (0, 0) unless position is a list or tuple of at
\* least two components that int() accepts
SerializePosition(pos) ==
    IF pos.t # "tuple" \/ Len(pos.d) < 2 THEN <<0, 0>>
    ELSE IF pos.d[1].t = "int" /\ pos.d[2].t = "int" THEN <<pos.d[1].n, pos.d[2].n>>
    ELSE <<0, 0>>

\* one entry of an array record's values
SerializeCell(cell) ==
    IF cell.t = "elem"
    THEN [kind |-> "shape",
          type |-> IF cell.e \in Circles THEN "circle" ELSE "rect",
          color |-> SerializeColor(GetAttr(cell.e, "color"), <<>>),
          width |-> IntAttr(cell.e, "width", 1),
          alpha |-> IntAttr(cell.e, "alpha", 1)]
    ELSE IF cell.t = "dict"
    THEN [kind |-> "dict", rotation |-> DictGet(cell.d, "rotation")]
    ELSE [kind |-> "plain", value |-> cell]

\* int(rot) of a structured cell whose rotation is still a V object raises,
\* and so does the color triple of a shape cell with a component int() rejects
CellRaises(cell) ==
    \/ cell.t = "dict" /\ DictGet(cell.d, "rotation").t = "V"
    \/ cell.t = "elem" /\ ColorRaises(GetAttr(cell.e, "color"))

\* _serialize_elem, with the ids of this pass; elem is a history field naming
\* the object the record was made from
serialize_elem(e, ids) ==
    [elem |-> e,
     type |-> IF e \in Panels THEN "panel"
              ELSE IF e \in Rects THEN "rect"
              ELSE IF e \in Arrays THEN "array"
              ELSE "circle",
     position |-> SerializePosition(GetAttr(e, "position")),
     alpha |-> IntAttr(e, "alpha", 1),
     color |-> IF IsShape(e)
               THEN SerializeColor(GetAttr(e, "color"), DefaultColor(e))
               ELSE <<>>,
     width |-> IF e \in Arrays THEN -1
               ELSE IntAttr(e, "width", IF e \in Panels THEN 5 ELSE 1),
     length |-> IF e \in Arrays THEN length[e] ELSE -1,
     values |-> IF e \in Arrays
                THEN [i \in 1..Len(cells[e]) |-> SerializeCell(cells[e][i])]
                ELSE <<>>,
     panelId |-> IF parent[e] # None /\ ids[parent[e]] # NoId
                 THEN ids[parent[e]] ELSE NoId]

\* does the pass raise while serializing e?
ElemRaises(e) ==
    \/ e \in Arrays /\ \E i \in 1..Len(cells[e]) : CellRaises(cells[e][i])
    \/ IsShape(e) /\ ColorRaises(GetAttr(e, "color"))

\* _serialize_visual_builder
Serialize ==
    /\ nops < MaxOps
    /\ vb_id' = AssignedIds
    /\ IF \E e \in Range(registry) : ElemRaises(e)
       THEN /\ outcome' = "raised in int()"
            /\ UNCHANGED result
       ELSE /\ outcome' = "ok"
            /\ result' = [i \in 1..Len(panels_first) |->
                             serialize_elem(panels_first[i], AssignedIds)]
    /\ last' = LastOp("serialize", None, 0, NoneV, NoParams)
    /\ UNCHANGED recVars
    /\ nops' = nops + 1
    /\ UNCHANGED <<created, registry, parent, children, array_owner, cells, length,
                   length_manually_set, cell_bindings, bindings, attrs, ever_assigned>>

----------------------------------------------------------------------------
(* The author's program: any sequence of operations on the elements *)

\* dict values the author assigns into cells
LitDict == DictV(<< <<"rotation", IntV(1)>> >>)
BoundDict == DictV(<< <<"rotation", ExprV("x")>> >>)

Indices == {0, MaxIndex}

CellValues == {IntV(7), LitDict, BoundDict} \cup {ElemV(e) : e \in Elems}

\* the step replayed between the operations on the ownership structure
PassParams == {[xdef |-> TRUE, x |-> 2, arrdef |-> TRUE, arr |-> <<1, 2, 3, 4>>]}

AttrValues == {IntV(3)} \cup {ExprV(x) : x \in Exprs}

Next ==
    \/ \E e \in Elems : Construct(e)
    \/ \E p \in Panels, e \in Elems : PanelAdd(p, e)
    \/ \E p \in Panels, e \in Elems : PanelRemove(p, e)
    \/ \E a \in Arrays, i \in Indices, v \in CellValues : SetItem(a, i, v)
    \/ \E e \in Elems, params \in PassParams : Update(e, params)
    \/ Serialize

Spec == Init /\ [][Next]_vars

\* The author's program binding and assigning properties, with the steps
\* replayed in between
BindElems == {"r1", "a1"}

NextBind ==
    \/ \E e \in BindElems, name \in Props, v \in AttrValues : SetAttr(e, name, v)
    \/ \E e \in BindElems, params \in StepParams : Update(e, params)
    \/ \E i \in Indices, v \in {ElemV("r1"), BoundDict} : SetItem("a1", i, v)

SpecBind == Init /\ [][NextBind]_vars

\* The author's program building panels: constructors, Panel.add, Panel.remove
NextPanel ==
    \/ \E e \in Elems : Construct(e)
    \/ \E p \in Panels, e \in Elems : PanelAdd(p, e)
    \/ \E p \in Panels, e \in Elems : PanelRemove(p, e)

SpecPanel == Init /\ [][NextPanel]_vars

\* The author's program setting and binding the length of a1 = Array("arr"),
\* writing its cells, with the steps replayed and the scene serialized in between
LengthValues == AttrValues \cup {IntV(MaxIndex + 2)}

\* the first cell, the last cell the constructor made, a cell beyond them
LenIndices == {0, DefaultLength - 1, MaxIndex}

LenCellValues == {IntV(7), ElemV("r1")}

NextLen ==
    \/ \E v \in LengthValues : SetAttr("a1", "length", v)
    \/ \E i \in LenIndices, v \in LenCellValues : SetItem("a1", i, v)
    \/ \E params \in StepParams : Update("a1", params)
    \/ Serialize

SpecLen == Init /\ [][NextLen]_vars

\* The author's program assigning position, alpha and color of r1 = Rect(),
\* storing it in a1 or not, with the scene serialized in between
SerProps == {"position", "alpha", "color"}

\* a non-numeric value, a tuple that is too short, a tuple of three with a
\* non-numeric component, a well-formed triple
SerValues ==
    {StrV("red"), IntTuple(<<1>>), TupleV(<<StrV("red"), IntV(0), IntV(0)>>),
     IntTuple(<<1, 2, 3>>)}

NextSer ==
    \/ \E name \in SerProps, v \in SerValues : SetAttr("r1", name, v)
    \/ SetItem("a1", 0, ElemV("r1"))
    \/ Serialize

SpecSer == Init /\ [][NextSer]_vars

----------------------------------------------------------------------------
(* Step recorder: pythonTracer.py *)

\* Names are sequences of characters, so that startswith('_') is computed.
NameModule == <<"<", "m", "o", "d", "u", "l", "e", ">">>
NameMain == <<"_", "m", "a", "i", "n", "_">>
NameRunWithTrace ==
    <<"_", "r", "u", "n", "_", "w", "i", "t", "h", "_", "t", "r", "a", "c", "e">>
NameF == <<"f">>
NameHelper == <<"_", "h">>
NameG == <<"g">>
NameV == <<"v">>
NameT == <<"_", "t">>

\* name.startswith('_')
StartsWithUnderscore(name) == Len(name) > 0 /\ name[1] = "_"

\* values of the traced program: scalars, and lists by reference into heap
PyInt(k) == [t |-> "int", n |-> k, s |-> ""]
PyBool(b) == [t |-> "bool", n |-> IF b THEN 1 ELSE 0, s |-> ""]
\* a float, n counting halves: PyFloat(3) is 1.5
PyFloat(k) == [t |-> "float", n |-> k, s |-> ""]
PyStr(x) == [t |-> "str", n |-> 0, s |-> x]
PyList(ref) == [t |-> "list", n |-> ref, s |-> ""]
PyOther == [t |-> "other", n |-> 0, s |-> ""]

\* int(x) if isinstance(x, (int, float)) else (1 if x else 0)
IntOf(x) == IF x.t = "float" THEN PyInt(x.n \div 2) ELSE PyInt(x.n)

\* all(isinstance(x, (int, float, bool)) for x in value)
AllNumeric(l) == \A i \in 1..Len(l) : l[i].t \in {"int", "float", "bool"}

\* all(isinstance(x, str) for x in value)
AllStr(l) == \A i \in 1..Len(l) : l[i].t = "str"

\* does _capture_variables give the value an entry?
Representable(v) ==
    \/ v.t \in {"bool", "int", "float", "str"}
    \/ v.t = "list" /\ (AllNumeric(heap[v.n]) \/ AllStr(heap[v.n]))

\* the entry of one variable: alias is the list object the entry's value IS
\* (0 when the value is the entry's own)
CaptureValue(v) ==
    IF v.t = "bool" THEN [type |-> "int", value |-> PyInt(v.n), alias |-> 0]
    ELSE IF v.t \in {"int", "float", "str"} THEN [type |-> v.t, value |-> v, alias |-> 0]
    ELSE IF AllNumeric(heap[v.n])
    THEN [type |-> "arr[int]",
          value |-> [i \in 1..Len(heap[v.n]) |-> IntOf(heap[v.n][i])],
          alias |-> 0]
    ELSE [type |-> "arr[str]", value |-> <<>>, alias |-> v.n]

\* _capture_variables(frame, exclude_vars)
capture_variables(frame, exclude_vars) ==
    LET names == {name \in DOMAIN frame.locals :
                     /\ ~StartsWithUnderscore(name)
                     /\ name \notin exclude_vars
                     /\ Representable(frame.locals[name])}
    IN  [name \in names |-> CaptureValue(frame.locals[name])]

\* the origin tags _trace_function lets through
TracedFilenames == {"<exec>", "<string>"}

\* the scope list built by walking f_back from the frame at the top of frames
RECURSIVE BuildScope(_)
BuildScope(frames) ==
    IF frames = <<>> THEN <<>>
    ELSE LET f == frames[Len(frames)]
             outer == BuildScope(SubSeq(frames, 1, Len(frames) - 1))
         IN  IF StartsWithUnderscore(f.name) THEN outer
             ELSE Append(outer,
                         <<IF f.name # NameModule THEN f.name ELSE NameMain, f.lineno>>)

\* does _trace_function(frame, event, arg) append a step for the top frame?
Records(frames, event) ==
    /\ event = "line"
    /\ frames[Len(frames)].filename \in TracedFilenames
    /\ ~StartsWithUnderscore(frames[Len(frames)].name)

\* {'__builtins__', '__name__', '__doc__'}, by one of its members
ExcludeVars == {<<"_", "_", "d", "o", "c", "_", "_">>}

\* the step _trace_function appends
NewStep(frames) ==
    [line |-> frames[Len(frames)].lineno,
     variables |-> capture_variables(frames[Len(frames)], ExcludeVars),
     scope |-> BuildScope(frames)]

\* _trace_steps after _trace_function(frame, event, arg), frame at the top of frames
trace_function(frames, event) ==
    IF Records(frames, event) THEN Append(trace_steps, NewStep(frames)) ELSE trace_steps

\* what a reader of a recorded step sees now: aliased values are looked up
StepView(step) ==
    [line |-> step.line,
     scope |-> step.scope,
     variables |-> [name \in DOMAIN step.variables |->
        [type |-> step.variables[name].type,
         value |-> IF step.variables[name].alias # 0
                   THEN heap[step.variables[name].alias]
                   ELSE step.variables[name].value]]]

\* the frame is one of the author's own, outside reserved-prefixed functions
AuthorFrame(f) == f.filename = "<exec>" /\ ~StartsWithUnderscore(f.name)

Frame(filename, name, lineno) ==
    [filename |-> filename, name |-> name, lineno |-> lineno, locals |-> <<>>]

\* the host's frames when it calls the recorder
HostStacks ==
    {<<Frame("host.py", NameModule, 26)>>,
     <<Frame("host.py", NameModule, 26), Frame("host.py", NameG, 7)>>}

\* the output targets the host installs
HostTargets == {"console", "host_buffer"}

\* the list objects of the traced program when it starts
InitHeap == <<<<PyStr("a")>>, <<PyInt(1)>>>>

\* number of frames of the traced program: those above _run_with_trace's own
ProgDepth ==
    Len(stack) - (CHOOSE i \in 1..Len(stack) : stack[i].name = NameRunWithTrace)

\* the finally block of _run_with_trace
FinallyBlock ==
    /\ sys_trace' = None
    /\ sys_stdout' = original_stdout

\* the host rebinds sys.stdout between runs
HostSetStdout(target) ==
    /\ nops < MaxRecOps
    /\ ~running
    /\ sys_stdout' = target
    /\ nops' = nops + 1
    /\ UNCHANGED <<original_stdout, sys_trace, trace_steps, stack, heap, running, ret,
                   stdout_before, snapshots, author_lines>>
    /\ UNCHANGED visVars

\* _run_with_trace(code_str) up to the start of exec(), or through its failure
\* in compile()
RunBegin(compiles, host) ==
    /\ nops < MaxRecOps
    /\ ~running
    /\ stdout_before' = sys_stdout
    /\ trace_steps' = <<>>
    /\ snapshots' = <<>>
    /\ author_lines' = 0
    /\ IF compiles
       THEN /\ sys_stdout' = "capture"
            /\ sys_trace' = "_trace_function"
            /\ stack' = host \o <<Frame("pythonTracer.py", NameRunWithTrace, 88),
                                  Frame("<exec>", NameModule, 1)>>
            /\ heap' = InitHeap
            /\ running' = TRUE
            /\ UNCHANGED ret
       ELSE /\ FinallyBlock
            /\ ret' = [kind |-> "raise", exc |-> "SyntaxError", steps |-> <<>>,
                       compiled |-> FALSE]
            /\ UNCHANGED <<stack, heap, running>>
    /\ nops' = nops + 1
    /\ UNCHANGED original_stdout
    /\ UNCHANGED visVars

\* the traced program executes a line in its top frame: the line event
TraceLine(line) ==
    /\ nops < MaxRecOps
    /\ running
    /\ LET frames == [stack EXCEPT ![Len(stack)].lineno = line]
       IN  /\ stack' = frames
           /\ trace_steps' = trace_function(frames, "line")
           /\ snapshots' = IF Records(frames, "line")
                           THEN Append(snapshots, StepView(NewStep(frames)))
                           ELSE snapshots
           /\ author_lines' = IF AuthorFrame(frames[Len(frames)])
                              THEN author_lines + 1 ELSE author_lines
    /\ nops' = nops + 1
    /\ UNCHANGED <<sys_stdout, original_stdout, sys_trace, heap, running, ret,
                   stdout_before>>
    /\ UNCHANGED visVars

\* the traced program binds a name in its top frame
ProgAssign(name, v) ==
    /\ nops < MaxRecOps
    /\ running
    /\ stack' = [stack EXCEPT ![Len(stack)].locals = DictSet(@, name, v)]
    /\ nops' = nops + 1
    /\ UNCHANGED <<sys_stdout, original_stdout, sys_trace, trace_steps, heap, running,
                   ret, stdout_before, snapshots, author_lines>>
    /\ UNCHANGED visVars

\* the traced program appends to one of its lists in place
ProgAppend(ref, v) ==
    /\ nops < MaxRecOps
    /\ running
    /\ Len(heap[ref]) < MaxListLen
    /\ heap' = [heap EXCEPT ![ref] = Append(@, v)]
    /\ nops' = nops + 1
    /\ UNCHANGED <<sys_stdout, original_stdout, sys_trace, trace_steps, stack, running,
                   ret, stdout_before, snapshots, author_lines>>
    /\ UNCHANGED visVars

\* the traced program enters a function or evaluates a string: the call event
ProgCall(filename, name) ==
    /\ nops < MaxRecOps
    /\ running
    /\ ProgDepth < 1 + MaxDepth
    /\ stack' = Append(stack, Frame(filename, name, 1))
    /\ trace_steps' = trace_function(stack', "call")
    /\ nops' = nops + 1
    /\ UNCHANGED <<sys_stdout, original_stdout, sys_trace, heap, running, ret,
                   stdout_before, snapshots, author_lines>>
    /\ UNCHANGED visVars

\* the top frame of the traced program returns to its caller: the return event
ProgReturn ==
    /\ nops < MaxRecOps
    /\ running
    /\ stack[Len(stack) - 1].name # NameRunWithTrace
    /\ trace_steps' = trace_function(stack, "return")
    /\ stack' = SubSeq(stack, 1, Len(stack) - 1)
    /\ nops' = nops + 1
    /\ UNCHANGED <<sys_stdout, original_stdout, sys_trace, heap, running, ret,
                   stdout_before, snapshots, author_lines>>
    /\ UNCHANGED visVars

\* exec() returns: the finally block, then the return of steps and output
RunEnd ==
    /\ nops < MaxRecOps
    /\ running
    /\ stack[Len(stack) - 1].name = NameRunWithTrace
    /\ FinallyBlock
    /\ stack' = <<>>
    /\ running' = FALSE
    /\ ret' = [kind |-> "return", exc |-> "", steps |-> trace_steps, compiled |-> TRUE]
    /\ nops' = nops + 1
    /\ UNCHANGED <<original_stdout, trace_steps, heap, stdout_before, snapshots,
                   author_lines>>
    /\ UNCHANGED visVars

\* the traced program raises: the finally block, then the exception propagates
ProgRaise ==
    /\ nops < MaxRecOps
    /\ running
    /\ FinallyBlock
    /\ stack' = <<>>
    /\ running' = FALSE
    /\ ret' = [kind |-> "raise", exc |-> "RuntimeError", steps |-> <<>>, compiled |-> TRUE]
    /\ nops' = nops + 1
    /\ UNCHANGED <<original_stdout, trace_steps, heap, stdout_before, snapshots,
                   author_lines>>
    /\ UNCHANGED visVars

\* the frames the traced program enters: the author's function, a
\* reserved-prefixed helper, a string handed to exec()/eval(), library code
CallTargets ==
    {<<"<exec>", NameF>>, <<"<exec>", NameHelper>>, <<"<string>", NameModule>>,
     <<"lib.py", NameG>>}

AssignedValues == {PyInt(1), PyBool(TRUE), PyList(1), PyList(2)}

AppendedValues == {PyStr("b"), PyInt(2)}

NextRec ==
    \/ \E target \in HostTargets : HostSetStdout(target)
    \/ \E compiles \in BOOLEAN, host \in HostStacks : RunBegin(compiles, host)
    \/ \E line \in 1..MaxLine : TraceLine(line)
    \/ \E name \in {NameV, NameT}, v \in AssignedValues : ProgAssign(name, v)
    \/ \E ref \in 1..Len(InitHeap), v \in AppendedValues : ProgAppend(ref, v)
    \/ \E c \in CallTargets : ProgCall(c[1], c[2])
    \/ ProgReturn
    \/ RunEnd
    \/ ProgRaise

SpecRec == Init /\ [][NextRec]_vars

----------------------------------------------------------------------------
(* Ownership claims, checked under Spec *)

ErrOtherArray == "ValueError: Element is already in another array"
ErrOtherPanel == "ValueError: Element belongs to a different panel than the array"

\* shape s is held in a cell of array a
HeldIn(s, a) == ElemV(s) \in Range(cells[a])

\* C1: a shape is never at the same time the child of a Panel (parent pointer
\* set) and owned by an Array (array owner set, or held in an array cell).
C1_AtMostOneOwner ==
    \A s \in created :
        IsShape(s) =>
            ~(/\ parent[s] # None
              /\ (array_owner[s] # None \/ \E a \in Arrays : HeldIn(s, a)))

\* C2: assigning a shape owned by array A into a cell of another array B fails
\* with the error at the assignment, and A's cells and length and the shape's
\* array owner are as before the call.
C2_CrossArrayAssignFails ==
    [][\A b \in Arrays, i \in Indices, s \in Elems :
          (/\ last'.op = "setitem"
           /\ IsShape(s)
           /\ array_owner[s] \in Arrays \ {b}
           /\ SetItem(b, i, ElemV(s)))
          => /\ outcome' = ErrOtherArray
             /\ cells'[array_owner[s]] = cells[array_owner[s]]
             /\ length'[array_owner[s]] = length[array_owner[s]]
             /\ array_owner'[s] = array_owner[s]]_vars

\* C2 witness: an assignment into another array has just failed, and the shape
\* is still held by its owner
C2_Witness ==
    /\ last.op = "setitem" /\ last.val.t = "elem"
    /\ outcome = ErrOtherArray
    /\ last.owner \in Arrays \ {last.tgt}
    /\ array_owner[last.val.e] = last.owner
    /\ HeldIn(last.val.e, last.owner)

\* C3: a shape that was successfully assigned into an array cell is not in the
\* registry, a later serialization pass emits no top-level record for it, and
\* only its owning array holds it in a cell.
C3_AssignedShapeNotTopLevel ==
    \A s \in ever_assigned :
        /\ s \notin Range(registry)
        /\ s \notin Range(panels_first)
        /\ (last.op = "serialize" /\ outcome = "ok")
              => \A i \in 1..Len(result) : result[i].elem # s
        /\ \A a \in Arrays : HeldIn(s, a) => array_owner[s] = a

\* C3 witness: a pass has just run after a shape was assigned into a cell and
\* then added to a panel; the shape appears inside its array's values
C3_Witness ==
    \E s \in ever_assigned :
        /\ last.op = "serialize" /\ outcome = "ok"
        /\ parent[s] # None
        /\ HeldIn(s, array_owner[s])
        /\ \E i \in 1..Len(result) :
              /\ result[i].elem = array_owner[s]
              /\ \E j \in 1..Len(result[i].values) : result[i].values[j].kind = "shape"

\* C4: an index-assignment of a shape that has a panel parent fails with an
\* error when that parent is not the array's own parent, changing no ownership;
\* when it succeeds the parent was the array's parent, the shape has left that
\* panel's children and its parent pointer is cleared; a shape with no parent
\* (and not owned by another array, which is C2's case) is stored directly.
C4_ParentRule ==
    [][\A a \in Arrays, i \in Indices, s \in Elems :
          (last'.op = "setitem" /\ IsShape(s) /\ SetItem(a, i, ElemV(s)))
          => /\ (parent[s] # None /\ parent[s] # parent[a])
                   => /\ outcome' \in {ErrOtherPanel, ErrOtherArray}
                      /\ UNCHANGED <<parent, children, array_owner, registry>>
             /\ (parent[s] # None /\ outcome' = "ok")
                   => /\ parent[s] = parent[a]
                      /\ s \notin Range(children'[parent[s]])
                      /\ parent'[s] = None
                      /\ array_owner'[s] = a
                      /\ cells'[a][i + 1] = ElemV(s)
             /\ (parent[s] = None /\ array_owner[s] \in {None, a})
                   => /\ outcome' = "ok"
                      /\ array_owner'[s] = a
                      /\ cells'[a][i + 1] = ElemV(s)
                      /\ UNCHANGED <<parent, children>>]_vars

\* C4 witness: a shape that was a child of the array's own panel has just been
\* assigned into the array
C4_Witness ==
    /\ last.op = "setitem" /\ last.val.t = "elem"
    /\ outcome = "ok"
    /\ last.elem_parent # None
    /\ last.elem_parent = last.my_parent
    /\ parent[last.val.e] = None
    /\ last.val.e \notin Range(children[last.elem_parent])
    /\ cells[last.tgt][last.idx + 1] = last.val

\* C17: an index-assignment that raises leaves the array's cells and length,
\* the registry and every panel's children as they were before the call,
\* whatever the index.
C17_FailedAssignChangesNothing ==
    [][(last'.op = "setitem" /\ outcome' # "ok")
          => UNCHANGED <<cells, length, registry, children>>]_vars

\* the cells of array a that hold shape s
CellsHolding(s, a) == {i \in 1..Len(cells[a]) : cells[a][i] = ElemV(s)}

\* C19: a shape has array owner A if and only if a cell of A holds it, and
\* no shape is held in two cells.
C19_OwnerIffHeldOnce ==
    \A s \in created :
        IsShape(s) =>
            \A a \in Arrays :
                /\ (array_owner[s] = a) <=> HeldIn(s, a)
                /\ Cardinality(CellsHolding(s, a)) <= 1

----------------------------------------------------------------------------
(* Panel claims, checked under SpecPanel *)

\* C18: an element is listed in panel P's children if and only if its parent
\* pointer is P, so it is listed in the children of at most one panel.
C18_ChildrenIffParent ==
    \A p \in Panels, e \in Elems :
        (e \in Range(children[p])) <=> (parent[e] = p)

----------------------------------------------------------------------------
(* Binding claims, checked under SpecBind *)

\* property name of element x is bound to an expression that resolves to NONE
\* against params
ResolvesToNone(x, name, params) ==
    /\ name \in DOMAIN bindings[x]
    /\ resolve(bindings[x][name], params).t = "None"

C10_BindingsFrame ==
    [][/\ \A e \in Elems, name \in Props, v \in AttrValues :
             (last'.op = "setattr" /\ SetAttr(e, name, v))
             => /\ v.t = "V" => /\ name \in DOMAIN bindings'[e]
                                /\ bindings'[e][name] = v.e
                                /\ GetAttr(e, name)' = GetAttr(e, name)
                /\ v.t # "V" => /\ name \notin DOMAIN bindings'[e]
                                /\ GetAttr(e, name)' = v
                /\ \A x \in Elems, k \in Props :
                      (x # e \/ k # name)
                      => /\ (k \in DOMAIN bindings'[x]) = (k \in DOMAIN bindings[x])
                         /\ k \in DOMAIN bindings[x] => bindings'[x][k] = bindings[x][k]
       /\ last'.op # "setattr" => bindings' = bindings]_vars

\* C10 witness: an update has just resolved r1's width binding to a value, and
\* the binding is still registered
C10_Witness ==
    /\ last.op = "update" /\ last.tgt = "r1"
    /\ "width" \in DOMAIN bindings["r1"]
    /\ resolve(bindings["r1"]["width"], last.params).t = "int"
    /\ GetAttr("r1", "width") = resolve(bindings["r1"]["width"], last.params)

\* C16: when the expression bound to a key of a structured cell resolves to
\* NONE at an update step, and the cell holds a concrete value for that key
\* from an earlier step, the cell still holds that value after the step.
C16_CellBindingLastGood ==
    [][\A a \in Arrays, params \in StepParams :
          (last'.op = "update" /\ Update(a, params))
          => \A idx \in DOMAIN cell_bindings[a] :
                (idx < Len(cells[a]) /\ cells[a][idx + 1].t = "dict")
                => \A j \in 1..Len(cell_bindings[a][idx]) :
                      LET k == cell_bindings[a][idx][j][1]
                          b == cell_bindings[a][idx][j][2]
                      IN  (/\ b.t = "V"
                           /\ resolve(b.e, params).t = "None"
                           /\ DictGet(cells[a][idx + 1].d, k).t = "int")
                          => /\ cells'[a][idx + 1].t = "dict"
                             /\ DictGet(cells'[a][idx + 1].d, k)
                                   = DictGet(cells[a][idx + 1].d, k)]_vars

----------------------------------------------------------------------------
(* Length claims, checked under SpecLen *)

\* the author has neither assigned nor bound the length of array a
LengthNeverSet(a) == ~length_manually_set[a] /\ "length" \notin DOMAIN bindings[a]

\* C11: for an Array whose length was never set explicitly and whose var_name
\* names a list of the step's variable mapping, the length after an update
\* step is that list's length at the step, whatever the list's length was at
\* earlier steps and whatever index writes came in between.
C11_AutoLengthFollowsList ==
    [][\A a \in Arrays, params \in StepParams :
          (/\ last'.op = "update"
           /\ LengthNeverSet(a)
           /\ VarName(a) = "arr" /\ params.arrdef
           /\ Update(a, params))
          => /\ length'[a] = Len(params.arr)
             /\ ~length_manually_set'[a]]_vars

\* C11 witness: an index write had grown a1 beyond its constructed cells, and
\* the step just replayed has a three-element list: the length shrank to 3
C11_Witness ==
    /\ last.op = "update" /\ last.tgt = "a1"
    /\ LengthNeverSet("a1")
    /\ last.params.arrdef /\ Len(last.params.arr) = 3
    /\ Len(cells["a1"]) > DefaultLength
    /\ length["a1"] = 3

\* C12: once the author has assigned a length, the array stays pinned and no
\* later update step or index write changes the length, other than an index
\* write at or beyond the length raising it to that index plus one; and the
\* pinned flag is raised only by the author's assignment (directly, or when an
\* update assigns the resolved value of the author's length binding).
C12_PinnedLengthKept ==
    [][\A a \in Arrays :
          /\ (/\ last'.op \in {"update", "setitem"}
              /\ length_manually_set[a]
              /\ "length" \notin DOMAIN bindings[a])
                => /\ length_manually_set'[a]
                   /\ \/ length'[a] = length[a]
                      \/ /\ last'.op = "setitem" /\ last'.tgt = a
                         /\ last'.idx >= length[a]
                         /\ length'[a] = last'.idx + 1
          /\ (length_manually_set'[a] /\ ~length_manually_set[a])
                => \/ last'.op = "setattr"
                   \/ last'.op = "update" /\ "length" \in DOMAIN bindings[a]]_vars

\* C13: an index write at an index at or beyond the array's length makes cell
\* i exist, fills the new cells with the default, raises the length to i + 1
\* and leaves the pinned flag alone; no index write lowers the length.
C13_WriteBeyondLengthGrows ==
    [][\A a \in Arrays, i \in LenIndices, v \in LenCellValues :
          (last'.op = "setitem" /\ SetItem(a, i, v))
          => /\ length'[a] >= length[a]
             /\ length_manually_set'[a] = length_manually_set[a]
             /\ i >= length[a]
                   => /\ Len(cells'[a]) > i
                      /\ length'[a] = i + 1
                      /\ \A j \in (Len(cells[a]) + 1)..i : cells'[a][j] = DefaultCell(a)]_vars

\* C14: for an Array bound by var_name to a list, with auto length, the record
\* a pass serializes right after the step's update has the list's length and
\* the list's elements as its values.
C14_SerializedListValues ==
    [][(/\ last.op = "update" /\ last'.op = "serialize"
        /\ last.tgt \in Arrays /\ VarName(last.tgt) = "arr"
        /\ last.params.arrdef
        /\ LengthNeverSet(last.tgt)
        /\ outcome' = "ok")
          => \A k \in 1..Len(result') :
                result'[k].elem = last.tgt
                => /\ result'[k].length = Len(last.params.arr)
                   /\ Len(result'[k].values) = Len(last.params.arr)
                   /\ \A j \in 1..Len(last.params.arr) :
                         /\ j <= Len(result'[k].values)
                         /\ result'[k].values[j] =
                               [kind |-> "plain", value |-> IntV(last.params.arr[j])]]_vars

----------------------------------------------------------------------------
(* Serializer claims, checked under SpecSer *)

\* a position the serializer can read: a pair (or longer) of numbers
WellFormedPosition(v) ==
    v.t = "tuple" /\ Len(v.d) >= 2 /\ v.d[1].t = "int" /\ v.d[2].t = "int"

\* a color the serializer can read: a triple (or longer) of numbers
WellFormedColor(v) ==
    v.t = "tuple" /\ Len(v.d) >= 3 /\ \A i \in 1..3 : v.d[i].t = "int"

\* C15: a serialization pass completes whatever position, alpha and color
\* hold, and where one of them is non-numeric or malformed the record carries
\* that field's default: position [0, 0], alpha 1.0, the class's color.
C15_SerializeNeverFails ==
    last.op = "serialize"
    => /\ outcome = "ok"
       /\ \A k \in 1..Len(result) :
             LET e == result[k].elem
             IN  /\ ~WellFormedPosition(GetAttr(e, "position"))
                       => result[k].position = <<0, 0>>
                 /\ GetAttr(e, "alpha").t # "int" => result[k].alpha = 1
                 /\ (IsShape(e) /\ ~WellFormedColor(GetAttr(e, "color")))
                       => result[k].color = DefaultColor(e)

----------------------------------------------------------------------------
(* Recorder claims, checked under SpecRec *)

\* C5: when the source given to the recorder does not compile, the run returns
\* normally with an empty step sequence; no syntax error is raised to the caller.
C5_SyntaxErrorGivesEmptySteps ==
    (ret.kind # "none" /\ ~ret.compiled)
        => (ret.kind = "return" /\ ret.steps = <<>>)

\* C6: on every exit of a run (normal return, compile failure, the traced
\* program raising) the line hook is removed and sys.stdout is the target that
\* was in effect immediately before the run began.
C6_OutputRestoredOnEveryExit ==
    [][(RunEnd \/ ProgRaise \/ \E host \in HostStacks : RunBegin(FALSE, host))
          => (sys_trace' = None /\ sys_stdout' = stdout_before')]_vars

\* C7: every recorded step still reads as it did when it was appended, whatever
\* the traced program has done since.
C7_StepsImmutable ==
    /\ Len(snapshots) = Len(trace_steps)
    /\ \A i \in 1..Len(trace_steps) : StepView(trace_steps[i]) = snapshots[i]

\* C8: a line event appends a step if and only if the frame's code comes from
\* the recorder's own "<exec>" unit and its function name does not start with
\* the reserved prefix, no other event appends one, and a run that returns
\* normally returns as many steps as there were such line events.
C8_StepIffAuthorLine ==
    [][/\ \A line \in 1..MaxLine :
             TraceLine(line)
             => /\ Len(trace_steps') \in {Len(trace_steps), Len(trace_steps) + 1}
                /\ (Len(trace_steps') = Len(trace_steps) + 1)
                      <=> AuthorFrame(stack'[Len(stack')])
       /\ (ProgReturn \/ \E c \in CallTargets : ProgCall(c[1], c[2]))
             => trace_steps' = trace_steps
       /\ RunEnd => Len(ret'.steps) = author_lines]_vars

\* the frames of the traced program: those above _run_with_trace's own
ProgFrames(frames) ==
    SubSeq(frames,
           (CHOOSE i \in 1..Len(frames) : frames[i].name = NameRunWithTrace) + 1,
           Len(frames))

\* C20: the scope of a recorded step lists the frames of the author's traced
\* program only, outermost first (reserved-prefixed frames left out, the
\* module frame named "_main_"); for a line at the top level of the program
\* it is the single entry ("_main_", line), whatever frames the host had.
C20_ScopeIsProgramFrames ==
    [][\A line \in 1..MaxLine :
          (TraceLine(line) /\ Len(trace_steps') = Len(trace_steps) + 1)
          => LET step == trace_steps'[Len(trace_steps')]
             IN  /\ step.scope = BuildScope(ProgFrames(stack'))
                 /\ Len(ProgFrames(stack')) = 1
                       => step.scope = << <<NameMain, line>> >>]_vars

====
